---------------------------- MODULE Spec2Model ----------------------------
(***************************************************************************)
(* A model of the analysis pipeline of shell-analyser (src/main.go):       *)
(* history reading and cleaning, command categorisation, tool detection,   *)
(* usage / proficiency / productivity scoring, peak hours, and the parsing *)
(* of shell configuration files.                                           *)
(*                                                                         *)
(* Go strings are sequences of one-character strings, so that prefix and   *)
(* substring tests, field splitting and trimming are computed character by *)
(* character as the library functions compute them.  Go maps are functions *)
(* with a finite domain (the keys present); a range over a map visits the  *)
(* keys in an unspecified order, which is modelled as a free choice.       *)
(* A float64 quotient c/total of two small non-negative integers is the    *)
(* pair <<c, total>>.                                                      *)
(***************************************************************************)
EXTENDS Integers, Sequences, FiniteSets, TLC

VARIABLES
    pc,         \* analyzeShells: "run" while the loop over the shells runs, "done" once it returned
    fs,         \* the host's history files, by shell
    host,       \* the host's tools: those whose probe succeeds, those on PATH
    hour,       \* time.Now().Hour()
    remaining,  \* the shells the range over shellPaths has not visited yet
    data,       \* the ShellData being assembled by analyzeShells
    call,       \* a single function application: its input, and its result once applied
    ui          \* the terminal program: its Model and the messages its event loop has handled

vars == <<pc, fs, host, hour, remaining, data, call, ui>>

(***************************************************************************)
(* Bounds of the model.                                                    *)
(***************************************************************************)
\* Longest history file given to readHistory / analyzeCommands on their own.
MaxLines == 2
\* Longest history file of a whole analyzeShells run.
MaxHistLines == 1
\* Most key and window messages the event loop handles in a program run.
MaxInputs == 5
\* Longest configuration file given to parseShellConfig.
MaxConfigLines == 2
\* Largest number of commands in one hour bucket given to getPeakHours.
MaxCount == 2

(***************************************************************************)
(* Strings.                                                                *)
(***************************************************************************)
s_ansible == <<"a", "n", "s", "i", "b", "l", "e">>
s_apache2 == <<"a", "p", "a", "c", "h", "e", "2">>
s_aws == <<"a", "w", "s">>
s_azure == <<"a", "z", "u", "r", "e">>
s_bash == <<"b", "a", "s", "h">>
s_build == <<"b", "u", "i", "l", "d">>
s_bundler == <<"b", "u", "n", "d", "l", "e", "r">>
s_cargo == <<"c", "a", "r", "g", "o">>
s_cd == <<"c", "d">>
s_clang == <<"c", "l", "a", "n", "g">>
s_code == <<"c", "o", "d", "e">>
s_commit == <<"c", "o", "m", "m", "i", "t">>
s_compile == <<"c", "o", "m", "p", "i", "l", "e">>
s_composer == <<"c", "o", "m", "p", "o", "s", "e", "r">>
s_cp == <<"c", "p">>
s_curl == <<"c", "u", "r", "l">>
s_dart == <<"d", "a", "r", "t">>
s_deploy == <<"d", "e", "p", "l", "o", "y">>
s_docker == <<"d", "o", "c", "k", "e", "r">>
s_dotnet == <<"d", "o", "t", "n", "e", "t">>
s_elixir == <<"e", "l", "i", "x", "i", "r">>
s_emacs == <<"e", "m", "a", "c", "s">>
s_erlang == <<"e", "r", "l", "a", "n", "g">>
s_fish == <<"f", "i", "s", "h">>
s_gcc == <<"g", "c", "c">>
s_gcloud == <<"g", "c", "l", "o", "u", "d">>
s_gem == <<"g", "e", "m">>
s_git == <<"g", "i", "t">>
s_go == <<"g", "o">>
s_gradle == <<"g", "r", "a", "d", "l", "e">>
s_haskell == <<"h", "a", "s", "k", "e", "l", "l">>
s_helm == <<"h", "e", "l", "m">>
s_java == <<"j", "a", "v", "a">>
s_julia == <<"j", "u", "l", "i", "a">>
s_kotlin == <<"k", "o", "t", "l", "i", "n">>
s_kubectl == <<"k", "u", "b", "e", "c", "t", "l">>
s_ls == <<"l", "s">>
s_lua == <<"l", "u", "a">>
s_make == <<"m", "a", "k", "e">>
s_maven == <<"m", "a", "v", "e", "n">>
s_mercurial == <<"m", "e", "r", "c", "u", "r", "i", "a", "l">>
s_merge == <<"m", "e", "r", "g", "e">>
s_mongodb == <<"m", "o", "n", "g", "o", "d", "b">>
s_mv == <<"m", "v">>
s_mysql == <<"m", "y", "s", "q", "l">>
s_nginx == <<"n", "g", "i", "n", "x">>
s_nim == <<"n", "i", "m">>
s_node == <<"n", "o", "d", "e">>
s_npm == <<"n", "p", "m">>
s_nvim == <<"n", "v", "i", "m">>
s_ocaml == <<"o", "c", "a", "m", "l">>
s_perl == <<"p", "e", "r", "l">>
s_php == <<"p", "h", "p">>
s_pip == <<"p", "i", "p">>
s_pnpm == <<"p", "n", "p", "m">>
s_ps == <<"p", "s">>
s_psql == <<"p", "s", "q", "l">>
s_pull == <<"p", "u", "l", "l">>
s_push == <<"p", "u", "s", "h">>
s_pytest == <<"p", "y", "t", "e", "s", "t">>
s_python == <<"p", "y", "t", "h", "o", "n">>
s_python3 == <<"p", "y", "t", "h", "o", "n", "3">>
s_r == <<"r">>
s_redis == <<"r", "e", "d", "i", "s">>
s_rm == <<"r", "m">>
s_ruby == <<"r", "u", "b", "y">>
s_rust == <<"r", "u", "s", "t">>
s_scala == <<"s", "c", "a", "l", "a">>
s_spec == <<"s", "p", "e", "c">>
s_sudo == <<"s", "u", "d", "o">>
s_svn == <<"s", "v", "n">>
s_swift == <<"s", "w", "i", "f", "t">>
s_systemctl == <<"s", "y", "s", "t", "e", "m", "c", "t", "l">>
s_terraform == <<"t", "e", "r", "r", "a", "f", "o", "r", "m">>
s_test == <<"t", "e", "s", "t">>
s_tmux == <<"t", "m", "u", "x">>
s_top == <<"t", "o", "p">>
s_vagrant == <<"v", "a", "g", "r", "a", "n", "t">>
s_vim == <<"v", "i", "m">>
s_wget == <<"w", "g", "e", "t">>
s_yarn == <<"y", "a", "r", "n">>
s_zig == <<"z", "i", "g">>
s_zsh == <<"z", "s", "h">>
s_go_get == <<"g", "o", " ", "g", "e", "t">>
s_git_commit == <<"g", "i", "t", " ", "c", "o", "m", "m", "i", "t">>
s_git_push == <<"g", "i", "t", " ", "p", "u", "s", "h">>
s_git_pull == <<"g", "i", "t", " ", "p", "u", "l", "l">>
s_git_merge == <<"g", "i", "t", " ", "m", "e", "r", "g", "e">>
s_Developer == <<" ", "D", "e", "v", "e", "l", "o", "p", "e", "r">>
s_development == <<"d", "e", "v", "e", "l", "o", "p", "m", "e", "n", "t">>
s_system == <<"s", "y", "s", "t", "e", "m">>
s_file == <<"f", "i", "l", "e">>

\* strings.HasPrefix
HasPrefix(s, prefix) ==
    /\ Len(prefix) <= Len(s)
    /\ SubSeq(s, 1, Len(prefix)) = prefix

\* strings.Contains: the empty substring is contained in every string.
Contains(s, substr) ==
    \E i \in 1..(Len(s) - Len(substr) + 1) : SubSeq(s, i, i + Len(substr) - 1) = substr

\* unicode.IsSpace, on the characters of the model.
IsSpace(c) == c \in {" ", "\t"}

\* The length of the longest prefix of s without white space.
RECURSIVE FieldLen(_)
FieldLen(s) ==
    IF s = <<>> \/ IsSpace(Head(s)) THEN 0 ELSE 1 + FieldLen(Tail(s))

\* strings.Fields: the maximal runs of non-space characters, in order.
RECURSIVE Fields(_)
Fields(s) ==
    IF s = <<>> THEN <<>>
    ELSE IF IsSpace(Head(s)) THEN Fields(Tail(s))
    ELSE <<SubSeq(s, 1, FieldLen(s))>> \o Fields(SubSeq(s, FieldLen(s) + 1, Len(s)))

\* strings.TrimSpace
RECURSIVE TrimLeftSpace(_)
TrimLeftSpace(s) ==
    IF s # <<>> /\ IsSpace(Head(s)) THEN TrimLeftSpace(Tail(s)) ELSE s

RECURSIVE TrimRightSpace(_)
TrimRightSpace(s) ==
    IF s # <<>> /\ IsSpace(s[Len(s)]) THEN TrimRightSpace(SubSeq(s, 1, Len(s) - 1)) ELSE s

TrimSpace(s) == TrimRightSpace(TrimLeftSpace(s))

\* strings.Trim(s, cutset): every leading and trailing character of the cutset goes.
RECURSIVE TrimLeft(_, _)
TrimLeft(s, cutset) ==
    IF s # <<>> /\ Head(s) \in cutset THEN TrimLeft(Tail(s), cutset) ELSE s

RECURSIVE TrimRight(_, _)
TrimRight(s, cutset) ==
    IF s # <<>> /\ s[Len(s)] \in cutset THEN TrimRight(SubSeq(s, 1, Len(s) - 1), cutset) ELSE s

Trim(s, cutset) == TrimRight(TrimLeft(s, cutset), cutset)

\* strings.TrimPrefix
TrimPrefix(s, prefix) ==
    IF HasPrefix(s, prefix) THEN SubSeq(s, Len(prefix) + 1, Len(s)) ELSE s

\* The index of the first sep in s, 0 when there is none (strings.Index).
RECURSIVE Index(_, _)
Index(s, sep) ==
    IF s = <<>> THEN 0
    ELSE IF Head(s) = sep THEN 1
    ELSE IF Index(Tail(s), sep) = 0 THEN 0 ELSE 1 + Index(Tail(s), sep)

\* strings.SplitN(s, sep, 2) for a one-character sep: cut at the first sep.
SplitN2(s, sep) ==
    IF Index(s, sep) = 0 THEN <<s>>
    ELSE <<SubSeq(s, 1, Index(s, sep) - 1), SubSeq(s, Index(s, sep) + 1, Len(s))>>

LowerLetters ==
    <<"a", "b", "c", "d", "e", "f", "g", "h", "i", "j", "k", "l", "m",
      "n", "o", "p", "q", "r", "s", "t", "u", "v", "w", "x", "y", "z">>

UpperLetters ==
    <<"A", "B", "C", "D", "E", "F", "G", "H", "I", "J", "K", "L", "M",
      "N", "O", "P", "Q", "R", "S", "T", "U", "V", "W", "X", "Y", "Z">>

Digits == {"0", "1", "2", "3", "4", "5", "6", "7", "8", "9"}

\* unicode.ToTitle on one character.
ToTitle(c) ==
    IF \E i \in 1..26 : LowerLetters[i] = c
    THEN UpperLetters[CHOOSE i \in 1..26 : LowerLetters[i] = c]
    ELSE c

\* The isSeparator of package strings: letters, digits and "_" join a word.
IsSeparator(c) ==
    ~ (\/ \E i \in 1..26 : c \in {LowerLetters[i], UpperLetters[i]}
       \/ c \in Digits
       \/ c = "_")

\* strings.Title: the first letter of every word in title case.
Title(s) ==
    [i \in 1..Len(s) |->
        IF i = 1 \/ IsSeparator(s[i - 1]) THEN ToTitle(s[i]) ELSE s[i]]

\* The sequences over S of length at most n.
SeqUpTo(S, n) == UNION {[1..k -> S] : k \in 0..n}

\* The orders in which a range over a map with key set S can visit the keys.
Orders(S) ==
    {o \in [1..Cardinality(S) -> S] : \A i, j \in 1..Cardinality(S) : i # j => o[i] # o[j]}

\* m[k]++ on a map of counters: a missing key counts from zero.
Incr(m, k) ==
    [x \in DOMAIN m \cup {k} |-> IF x = k THEN (IF k \in DOMAIN m THEN m[k] ELSE 0) + 1 ELSE m[x]]

\* m[k] read from a map of counters: zero for a missing key.
Get(m, k) == IF k \in DOMAIN m THEN m[k] ELSE 0

\* make(map[...]...)
EmptyMap == [x \in {} |-> 0]

(***************************************************************************)
(* readHistory, cleanHistoryLine, categorizeCommand.                       *)
(***************************************************************************)
Shells == {"bash", "zsh", "fish"}

\* The category names of categorizeCommand.
Categories == {s_development, s_system, s_file}

\* The patterns map of categorizeCommand: each category's prefixes, in order.
CategoryPatterns(category) ==
    CASE category = s_development -> <<s_git, s_docker, s_npm, s_go, s_python>>
      [] category = s_system -> <<s_sudo, s_systemctl, s_ps, s_top>>
      [] category = s_file -> <<s_ls, s_cd, s_cp, s_mv, s_rm>>

MatchesCategoryAnywhere(cmd, category) ==
    \E i \in 1..Len(CategoryPatterns(category)) : Contains(cmd, CategoryPatterns(category)[i])

\* The inner loop of categorizeCommand: some prefix of the category starts cmd.
MatchesCategory(cmd, category) ==
    \E i \in 1..Len(CategoryPatterns(category)) : HasPrefix(cmd, CategoryPatterns(category)[i])

\* categorizeCommand when the range over the patterns map visits the
\* categories in the given order: a matching category is appended once.
RECURSIVE categorizeCommandIn(_, _)
categorizeCommandIn(cmd, order) ==
    IF order = <<>> THEN <<>>
    ELSE (IF MatchesCategory(cmd, Head(order)) THEN <<Head(order)>> ELSE <<>>)
         \o categorizeCommandIn(cmd, Tail(order))

\* categorizeCommand: the results the map's iteration orders can give.
categorizeCommand(cmd) == {categorizeCommandIn(cmd, o) : o \in Orders(Categories)}

\* cleanHistoryLine: the last field of the line, "" when it has none.
cleanHistoryLineFirst(line) ==
    IF Len(Fields(line)) > 0 THEN Fields(line)[1] ELSE <<>>

cleanHistoryLine(line) ==
    IF Len(Fields(line)) > 0 THEN Fields(line)[Len(Fields(line))] ELSE <<>>

\* A history file that cannot be opened.
NoFile == [lines |-> <<>>, opens |-> FALSE, err |-> TRUE]

\* The scan loop of readHistory over the lines the scanner delivers, line i
\* being read at hour now[i]: one entry per line that does not clean to "".
RECURSIVE ScanLines(_, _, _)
ScanLines(lines, now, i) ==
    IF i > Len(lines) THEN <<>>
    ELSE (IF cleanHistoryLine(lines[i]) # <<>>
          THEN <<[Command |-> cleanHistoryLine(lines[i]),
                  Timestamp |-> now[i],
                  Categories |-> CHOOSE c \in categorizeCommand(cleanHistoryLine(lines[i])) : TRUE]>>
          ELSE <<>>)
         \o ScanLines(lines, now, i + 1)

\* readHistory: (nil, err) when the file cannot be opened, otherwise the
\* entries and scanner.Err().
readHistory(file, now) ==
    IF ~ file.opens THEN [entries |-> <<>>, err |-> TRUE]
    ELSE [entries |-> ScanLines(file.lines, now, 1), err |-> file.err]

(***************************************************************************)
(* The state before analyzeShells has run, and the idle pipeline of the    *)
(* specifications that apply one function on its own.                      *)
(***************************************************************************)
\* initShellData: every map made empty, every string and slice zero.
initShellData ==
    [Histories |-> EmptyMap,
     ShellConfigs |-> EmptyMap,
     PrimaryRole |-> <<>>,
     TechStack |-> {},
     Proficiency |-> EmptyMap,
     PeakHours |-> <<>>,
     Productivity |-> EmptyMap]

NoHost == [probeOk |-> {}, onPath |-> {}]

NoCall == [fn |-> "none", done |-> TRUE]

\* No terminal program is running.
NoProgram == [phase |-> "none"]

PipelineIdle ==
    /\ pc = "idle"
    /\ fs = [s \in Shells |-> NoFile]
    /\ host = NoHost
    /\ hour = 0
    /\ remaining = {}
    /\ data = initShellData
    /\ ui = NoProgram

PipelineUnchanged == UNCHANGED <<pc, fs, host, hour, remaining, data, ui>>

(***************************************************************************)
(* Inputs of readHistory and categorizeCommand.                            *)
(***************************************************************************)
\* History lines: empty, blank, one token, several tokens with blanks and
\* tabs around them, a token behind a numeric prefix.
LinePool ==
    {<<>>,
     <<" ", "\t">>,
     s_ls,
     <<" ">> \o s_rm \o <<" ", "-", "r", "f", " ", "t", "m", "p", " ">>,
     s_git \o <<"\t">> \o s_push,
     <<"1", " ">> \o s_make \o s_test}

\* The history files: one that cannot be opened, and those the scanner
\* reads some lines of, with or without a final error.
Files(lines, n) ==
    {NoFile} \cup {[lines |-> l, opens |-> TRUE, err |-> e] : l \in SeqUpTo(lines, n), e \in BOOLEAN}

StartHours == {14, 23}

\* The hours at which n lines are read in turn: the clock may pass the hour once.
Clocks(n) ==
    {[i \in 1..n |-> IF i <= b THEN h ELSE (h + 1) % 24] : h \in StartHours, b \in 0..n}

ReadInputs ==
    {[fn |-> "readHistory", file |-> f, now |-> c, done |-> FALSE, entries |-> <<>>, err |-> FALSE] :
        f \in Files(LinePool, MaxLines), c \in Clocks(MaxLines + 1)}

s_lsof == <<"l", "s", "o", "f">>
s_mvn == <<"m", "v", "n">>

\* Commands: every configured prefix and a few other words, alone or
\* followed by more text.
CommandWords ==
    UNION {{CategoryPatterns(c)[i] : i \in 1..Len(CategoryPatterns(c))} : c \in Categories}
    \cup {s_psql, s_lsof, s_mvn, s_make, s_vim, <<>>, s_sudo \o <<" ">> \o s_rm, <<" ">> \o s_ls}

CommandSuffixes ==
    {<<>>,
     <<"x">>,
     <<" ", "-", "r", "f", " ", "t", "m", "p">>,
     <<" ">> \o s_commit \o <<" ", "-", "m", " ", "x">>}

CommandPool == {w \o s : w \in CommandWords, s \in CommandSuffixes}

CategorizeInputs ==
    {[fn |-> "categorizeCommand", cmd |-> c, done |-> FALSE, categories |-> <<>>] : c \in CommandPool}

InitRead ==
    /\ PipelineIdle
    /\ call \in ReadInputs \cup CategorizeInputs

\* readHistory applied to the file.
CallReadHistory ==
    /\ call.fn = "readHistory" /\ ~ call.done
    /\ call' = [call EXCEPT !.done = TRUE,
                            !.entries = readHistory(call.file, call.now).entries,
                            !.err = readHistory(call.file, call.now).err]
    /\ PipelineUnchanged

\* categorizeCommand applied to the command.
CallCategorizeCommand ==
    /\ call.fn = "categorizeCommand" /\ ~ call.done
    /\ \E c \in categorizeCommand(call.cmd) :
          call' = [call EXCEPT !.done = TRUE, !.categories = c]
    /\ PipelineUnchanged

NextRead == CallReadHistory \/ CallCategorizeCommand

SpecRead == InitRead /\ [][NextRead]_vars

(***************************************************************************)
(* C1, C2.                                                                 *)
(***************************************************************************)
\* The line has a character that is not white space.
NonBlank(line) == \E i \in 1..Len(line) : ~ IsSpace(line[i])

\* t is the last white-space-separated token of the line: a run of
\* non-space characters that starts the line or follows a space, with
\* nothing but spaces after it.
IsLastToken(line, t) ==
    \E i \in 1..Len(line) : \E j \in i..Len(line) :
        /\ t = SubSeq(line, i, j)
        /\ \A k \in i..j : ~ IsSpace(line[k])
        /\ \A k \in (j + 1)..Len(line) : IsSpace(line[k])
        /\ (i = 1 \/ IsSpace(line[i - 1]))

\* The indices of the non-blank lines, ascending.
NonBlankIndices(lines) ==
    LET Keep(i) == NonBlank(lines[i])
    IN  SelectSeq([i \in 1..Len(lines) |-> i], Keep)

\* C1: readHistory returns one entry per non-blank line the scanner
\* delivered, in the order of the lines, and the entry's command is the
\* last white-space-separated token of its line; a blank or empty line
\* gives no entry, so the history is as long as the non-blank lines are
\* many; a file that cannot be opened gives no entries and an error.
C1_ReadHistoryLastToken ==
    (call.fn = "readHistory" /\ call.done) =>
        IF ~ call.file.opens THEN call.entries = <<>> /\ call.err
        ELSE /\ Len(call.entries) = Len(NonBlankIndices(call.file.lines))
             /\ Len(call.entries) = Cardinality({i \in 1..Len(call.file.lines) : NonBlank(call.file.lines[i])})
             /\ \A k \in 1..Len(call.entries) :
                   /\ IsLastToken(call.file.lines[NonBlankIndices(call.file.lines)[k]],
                                  call.entries[k].Command)
                   /\ call.entries[k].Command # <<>>
             /\ call.err = call.file.err

\* A file with a blank line and a line of several tokens has been read.
C1_Witness ==
    /\ call.fn = "readHistory" /\ call.done /\ call.file.opens
    /\ \E i \in 1..Len(call.file.lines) : ~ NonBlank(call.file.lines[i])
    /\ \E i \in 1..Len(call.file.lines) : Len(Fields(call.file.lines[i])) > 1
    /\ Len(call.entries) = 1

\* The first white-space-separated token of the command, "" when it has none.
LeadingToken(cmd) == IF Fields(cmd) = <<>> THEN <<>> ELSE Fields(cmd)[1]

\* The configured prefixes of a category, as a set.
PrefixSet(category) == {CategoryPatterns(category)[i] : i \in 1..Len(CategoryPatterns(category))}

\* How often x occurs in the sequence.
Occurrences(seq, x) == Cardinality({i \in 1..Len(seq) : seq[i] = x})

\* C2 as stated: a category is recorded, once, exactly when the leading
\* token of the command is one of the category's configured names.
C2_LeadingTokenIsConfiguredName ==
    (call.fn = "categorizeCommand" /\ call.done) =>
        \A c \in Categories :
            Occurrences(call.categories, c) = (IF LeadingToken(call.cmd) \in PrefixSet(c) THEN 1 ELSE 0)

\* C2 (amended): a category is recorded, once, exactly when the command
\* string begins with one of the category's configured prefixes, whatever
\* follows the prefix; nothing else is recorded, and the order in which the
\* categories are visited does not change the result.
C2_CategoryIffStringPrefix ==
    (call.fn = "categorizeCommand" /\ call.done) =>
        /\ \A c \in Categories :
              Occurrences(call.categories, c) =
                  (IF \E n \in 0..Len(call.cmd) : SubSeq(call.cmd, 1, n) \in PrefixSet(c) THEN 1 ELSE 0)
        /\ \A i \in 1..Len(call.categories) : call.categories[i] \in Categories
        /\ categorizeCommand(call.cmd) = {call.categories}
        /\ (call.cmd = s_git \o <<" ">> \o s_commit \o <<" ", "-", "m", " ", "x">>
               => call.categories = <<s_development>>)
        /\ (call.cmd = s_rm \o <<" ", "-", "r", "f", " ", "t", "m", "p">>
               => call.categories = <<s_file>>)

\* "git commit -m x" has been categorized.
C2_Witness ==
    /\ call.fn = "categorizeCommand" /\ call.done
    /\ call.cmd = s_git \o <<" ">> \o s_commit \o <<" ", "-", "m", " ", "x">>
    /\ call.categories = <<s_development>>

(***************************************************************************)
(* analyzeCommands and the functions it calls.                             *)
(***************************************************************************)
\* The keys of the languages map of getInstalledLanguages.
Catalog ==
    {s_python, s_python3, s_node, s_go, s_java, s_ruby, s_php, s_rust,
     s_perl, s_scala, s_kotlin, s_swift, s_r, s_julia, s_haskell, s_elixir,
     s_erlang, s_clang, s_gcc, s_dotnet, s_lua, s_ocaml, s_dart, s_zig,
     s_nim, s_maven, s_gradle, s_npm, s_yarn, s_pnpm, s_pip, s_cargo,
     s_composer, s_bundler, s_docker, s_kubectl, s_terraform, s_ansible,
     s_vagrant, s_helm, s_aws, s_gcloud, s_azure, s_git, s_svn,
     s_mercurial, s_mysql, s_psql, s_mongodb, s_redis, s_nginx, s_apache2,
     s_curl, s_wget, s_vim, s_nvim, s_emacs, s_code, s_zsh, s_bash, s_fish,
     s_tmux}

\* The tools list of analyzeCommands.
Tools == {s_git, s_docker, s_kubectl, s_terraform, s_ansible, s_make}

\* "Keep only top 10" of getInstalledLanguages.
TopInstalled == 10

Min(a, b) == IF a <= b THEN a ELSE b

\* getInstalledLanguages: the catalog's tools whose probe succeeds on the
\* host, cut to ten.  Every count the sort compares is zero and the list is
\* built by a range over a map, so any ten of them can be the ones kept.
getInstalledLanguages(h) ==
    {S \in SUBSET (h.probeOk \cap Catalog) :
        Cardinality(S) = Min(TopInstalled, Cardinality(h.probeOk \cap Catalog))}

\* checkToolInstalled: exec.LookPath finds the tool.
checkToolInstalled(h, tool) == tool \in h.onPath

\* getPackageManager: a language missing from the managers map gets "".
getPackageManager(lang) ==
    CASE lang = s_python -> s_pip
      [] lang = s_node -> s_npm
      [] lang = s_go -> s_go_get
      [] lang = s_rust -> s_cargo
      [] lang = s_ruby -> s_gem
      [] lang = s_php -> s_composer
      [] OTHER -> <<>>

\* The language usage test of analyzeCommands, as the number of times the
\* command increments langUsage[lang].
LangHitsEach(cmd, lang) ==
    (IF Contains(cmd, lang) THEN 1 ELSE 0)
    + (IF Contains(cmd, getPackageManager(lang)) THEN 1 ELSE 0)

LangHits(cmd, lang) ==
    IF Contains(cmd, lang) \/ Contains(cmd, getPackageManager(lang)) THEN 1 ELSE 0

\* The development tool test of analyzeCommands, likewise.
ToolHits(h, cmd, tool) ==
    IF HasPrefix(cmd, tool) /\ checkToolInstalled(h, tool) THEN 1 ELSE 0

\* A map of counters after adding hits[k] to every key k of hits: a key is
\* created by its first increment only.
AddHits(m, hits) ==
    [k \in DOMAIN m \cup {x \in DOMAIN hits : hits[x] > 0} |->
        Get(m, k) + (IF k \in DOMAIN hits THEN hits[k] ELSE 0)]

\* langUsage after the loop over the entries.
RECURSIVE LangUsage(_, _)
LangUsage(entries, installedLangs) ==
    IF entries = <<>> THEN EmptyMap
    ELSE LET cmd == entries[Len(entries)].Command
         IN  AddHits(LangUsage(SubSeq(entries, 1, Len(entries) - 1), installedLangs),
                     [lang \in installedLangs |-> LangHits(cmd, lang)])

\* toolUsage after the loop over the entries.
RECURSIVE ToolUsageOf(_, _)
ToolUsageOf(entries, h) ==
    IF entries = <<>> THEN EmptyMap
    ELSE LET cmd == entries[Len(entries)].Command
         IN  AddHits(ToolUsageOf(SubSeq(entries, 1, Len(entries) - 1), h),
                     [tool \in Tools |-> ToolHits(h, cmd, tool)])

\* timeOfDay after the loop over the entries.
RECURSIVE TimeOfDay(_)
TimeOfDay(entries) ==
    IF entries = <<>> THEN EmptyMap
    ELSE Incr(TimeOfDay(SubSeq(entries, 1, Len(entries) - 1)), entries[Len(entries)].Timestamp)

\* The patternMap of analyzeCommandPattern: each regular expression is an
\* alternation of literals, matched anywhere in the command.
PatternNames == {"git_workflow", "build", "deploy", "test"}

PatternAlternatives(pattern) ==
    CASE pattern = "git_workflow" -> {s_git_commit, s_git_push, s_git_pull, s_git_merge}
      [] pattern = "build" -> {s_make, s_build, s_compile}
      [] pattern = "deploy" -> {s_deploy, s_kubectl, s_docker}
      [] pattern = "test" -> {s_test, s_spec, s_pytest}

\* regex.MatchString(cmd)
MatchString(pattern, cmd) == \E alt \in PatternAlternatives(pattern) : Contains(cmd, alt)

\* analyzeCommandPattern: every matching pattern is counted once for the command.
analyzeCommandPattern(cmd, patterns) ==
    AddHits(patterns, [pattern \in PatternNames |-> IF MatchString(pattern, cmd) THEN 1 ELSE 0])

\* commandPatterns after the loop over the entries.
RECURSIVE CommandPatterns(_)
CommandPatterns(entries) ==
    IF entries = <<>> THEN EmptyMap
    ELSE analyzeCommandPattern(entries[Len(entries)].Command,
                               CommandPatterns(SubSeq(entries, 1, Len(entries) - 1)))

\* getMostUsed: (maxKey, maxVal > 0).  The range replaces the running
\* maximum only by a strictly larger count, so the key returned is the
\* first key of maximal count that the range visits, and the range can
\* visit any of them first; with no positive count it is ("", false).
getMostUsed(usage) ==
    IF \E k \in DOMAIN usage : usage[k] > 0
    THEN {[key |-> k, ok |-> TRUE] :
            k \in {x \in DOMAIN usage : \A y \in DOMAIN usage : usage[y] <= usage[x]}}
    ELSE {[key |-> <<>>, ok |-> FALSE]}

\* The first three elements of a sequence.
Top3(s) == SubSeq(s, 1, Min(3, Len(s)))

\* getPeakHours: the hours are collected by a range over the map and sorted
\* by sort.Slice on the count alone, descending; the sort is not stable, so
\* hours of equal count can come out in any order.  The first three are kept.
getPeakHours(timeOfDay) ==
    {Top3(o) : o \in {p \in Orders(DOMAIN timeOfDay) :
                        \A i \in 1..(Len(p) - 1) : timeOfDay[p[i]] >= timeOfDay[p[i + 1]]}}

\* The distinct commands of the entries.
UniqueCommands(entries) == {entries[i].Command : i \in 1..Len(entries)}

\* float64(a) / float64(b)
Ratio(a, b) == <<a, b>>

calculateProductivityMetricsUnguarded(entries, patterns) ==
    [m \in {"Command Variety", "Workflow Complexity"} |->
        IF m = "Command Variety"
        THEN Ratio(Cardinality(UniqueCommands(entries)), Len(entries))
        ELSE Ratio(Get(patterns, "git_workflow") + Get(patterns, "build")
                   + Get(patterns, "deploy") + Get(patterns, "test"), Len(entries))]

\* calculateProductivityMetrics: no metric for an empty history.
calculateProductivityMetrics(entries, patterns) ==
    IF Len(entries) = 0 THEN EmptyMap
    ELSE [m \in {"Command Variety", "Workflow Complexity"} |->
            IF m = "Command Variety"
            THEN Ratio(Cardinality(UniqueCommands(entries)), Len(entries))
            ELSE Ratio(Get(patterns, "git_workflow") + Get(patterns, "build")
                       + Get(patterns, "deploy") + Get(patterns, "test"), Len(entries))]

\* The primary role step of analyzeCommands: set from the most used
\* language when there is one, left as it was otherwise.
PrimaryRoleAfter(role, primary) ==
    IF primary.ok THEN Title(primary.key) \o s_Developer ELSE role

\* The tech stack step: the installed languages with a positive count.  The
\* slice is kept as the set of its elements; their order is the order of a
\* range over a map.
TechStackOf(installedLangs, langUsage) == {lang \in installedLangs : Get(langUsage, lang) > 0}

\* The proficiency step: with a non-empty history, every counted language
\* and then every counted tool is written into the map.
ProficiencyAfter(proficiency, langUsage, toolUsage, totalCommands) ==
    IF totalCommands > 0
    THEN [x \in DOMAIN proficiency \cup DOMAIN langUsage \cup DOMAIN toolUsage |->
            IF x \in DOMAIN toolUsage THEN Ratio(toolUsage[x], totalCommands)
            ELSE IF x \in DOMAIN langUsage THEN Ratio(langUsage[x], totalCommands)
            ELSE proficiency[x]]
    ELSE proficiency

\* analyzeCommands on the entries, given the outcome of the probe
\* (installedLangs) and the results picked by the ranges over maps in
\* getMostUsed (primary) and getPeakHours (peaks).
analyzeCommands(entries, d, h, installedLangs, primary, peaks) ==
    [d EXCEPT
        !.PrimaryRole = PrimaryRoleAfter(@, primary),
        !.TechStack = TechStackOf(installedLangs, LangUsage(entries, installedLangs)),
        !.Proficiency = ProficiencyAfter(@, LangUsage(entries, installedLangs),
                                         ToolUsageOf(entries, h), Len(entries)),
        !.PeakHours = peaks,
        !.Productivity = calculateProductivityMetrics(entries, CommandPatterns(entries))]

(***************************************************************************)
(* analyzeCommands applied to one history on a fresh ShellData.            *)
(***************************************************************************)
\* History lines whose last tokens are: none, a plain command, a language,
\* a package manager, a tool, a word matching two workflow patterns.
CommandLines ==
    {<<" ">>,
     s_ls,
     s_python,
     <<"x", " ">> \o s_pip,
     s_git,
     <<"1", " ">> \o s_make \o s_test}

\* Ten commands, four of them python.
ExampleLines == [i \in 1..10 |-> IF i <= 4 THEN s_python ELSE s_ls]

CommandFiles ==
    {[lines |-> l, opens |-> TRUE, err |-> FALSE] :
        l \in SeqUpTo(CommandLines, MaxLines) \cup {ExampleLines}}

\* All lines read at 14h, or the first line at 23h and the others after midnight.
CommandClocks(n) ==
    {[i \in 1..n |-> 14], [i \in 1..n |-> IF i <= 1 THEN 23 ELSE 0]}

\* Eleven of the catalog's tools answer their probe on BigHost.
BigHost ==
    [probeOk |-> {s_python, s_node, s_go, s_rust, s_ruby, s_php,
                  s_pip, s_java, s_git, s_docker, s_vim},
     onPath |-> {s_git, s_docker}]

HostPool ==
    {NoHost,
     [probeOk |-> {s_python, s_go, s_git}, onPath |-> {s_make}],
     [probeOk |-> {s_python, s_java}, onPath |-> {s_git}],
     BigHost}

\* A host with two languages that have a package manager, and the
\* ShellData an earlier turn of the loop of analyzeShells leaves on it
\* after a history of the two commands python and ls read at 14h.
PlainHost == [probeOk |-> {s_python, s_go}, onPath |-> {}]

PriorData ==
    analyzeCommands(
        <<[Command |-> s_python, Timestamp |-> 14, Categories |-> <<s_development>>],
          [Command |-> s_ls, Timestamp |-> 14, Categories |-> <<s_file>>]>>,
        initShellData, PlainHost, {s_python, s_go}, [key |-> s_python, ok |-> TRUE], <<14>>)

CommandInputs ==
    {[fn |-> "analyzeCommands", entries |-> readHistory(f, c).entries, host |-> hb[1],
      done |-> FALSE, installedLangs |-> {}, before |-> hb[2], data |-> hb[2]] :
        f \in CommandFiles, c \in CommandClocks(10),
        hb \in (HostPool \X {initShellData}) \cup {<<PlainHost, PriorData>>}}

InitCommands ==
    /\ PipelineIdle
    /\ call \in CommandInputs

\* analyzeCommands applied to the entries.
CallAnalyzeCommands ==
    /\ call.fn = "analyzeCommands" /\ ~ call.done
    /\ \E installedLangs \in getInstalledLanguages(call.host) :
       \E primary \in getMostUsed(LangUsage(call.entries, installedLangs)) :
       \E peaks \in getPeakHours(TimeOfDay(call.entries)) :
          call' = [call EXCEPT
                      !.done = TRUE,
                      !.installedLangs = installedLangs,
                      !.data = analyzeCommands(call.entries, call.data, call.host,
                                               installedLangs, primary, peaks)]
    /\ PipelineUnchanged

NextCommands == CallAnalyzeCommands

SpecCommands == InitCommands /\ [][NextCommands]_vars

(***************************************************************************)
(* C3, C4, C10.                                                            *)
(***************************************************************************)
\* The quotient is a number of [0,1].
InUnit(r) == 0 <= r[1] /\ r[1] <= r[2] /\ r[2] > 0

\* The entries analyzeCommands counts for the language x.
CountedForLang(entries, x) ==
    {i \in 1..Len(entries) :
        \/ Contains(entries[i].Command, x)
        \/ Contains(entries[i].Command, getPackageManager(x))}

\* The entries analyzeCommands counts for the tool x on host h.
CountedForTool(entries, h, x) ==
    {i \in 1..Len(entries) : HasPrefix(entries[i].Command, x) /\ x \in h.onPath}

\* C3: after analyzeCommands on a history of total > 0 entries, every
\* proficiency stored is in [0,1]; for every name counted in this history
\* it is c/total, where c is the number of entries counted for that name
\* (for a name counted both as a tool and as a language, the tool's count,
\* written last); the names not counted in this history keep the value they
\* had, and no other name is stored; four python commands out of ten give
\* 0.4.
C3_ProficiencyIsShareOfHistory ==
    (call.fn = "analyzeCommands" /\ call.done /\ Len(call.entries) > 0) =>
        LET total == Len(call.entries)
            P == call.data.Proficiency
            old == call.before.Proficiency
            tools == {x \in Tools : CountedForTool(call.entries, call.host, x) # {}}
            langs == {x \in call.installedLangs : CountedForLang(call.entries, x) # {}}
        IN  /\ DOMAIN P = DOMAIN old \cup tools \cup langs
            /\ \A x \in DOMAIN P : InUnit(P[x])
            /\ \A x \in tools \cup langs : P[x][2] = total
            /\ \A x \in tools : P[x][1] = Cardinality(CountedForTool(call.entries, call.host, x))
            /\ \A x \in langs \ tools : P[x][1] = Cardinality(CountedForLang(call.entries, x))
            /\ \A x \in DOMAIN old \ (tools \cup langs) : P[x] = old[x]
            /\ ((\A i \in 1..total : call.entries[i].Command = ExampleLines[i])
                    /\ total = 10 /\ s_python \in call.installedLangs
                  => P[s_python][1] * 10 = 4 * P[s_python][2])

\* The ten-command history with four python commands has been analysed on
\* a host with python: its proficiency is 4/10.
C3_Witness ==
    /\ call.fn = "analyzeCommands" /\ call.done
    /\ Len(call.entries) = 10
    /\ s_python \in DOMAIN call.data.Proficiency
    /\ call.data.Proficiency[s_python] = <<4, 10>>

\* C4 as stated: for a non-empty history every productivity score is in
\* [0,1], and Command Variety is positive.
C4_ProductivityInUnit ==
    (call.fn = "analyzeCommands" /\ call.done /\ Len(call.entries) > 0) =>
        /\ DOMAIN call.data.Productivity = {"Command Variety", "Workflow Complexity"}
        /\ \A m \in DOMAIN call.data.Productivity : InUnit(call.data.Productivity[m])
        /\ call.data.Productivity["Command Variety"][1] > 0

\* The command mentions x: it contains the tool's invocation name or its
\* package-manager alias, for a tool that has one.
Mentions(cmd, x) ==
    \/ Contains(cmd, x)
    \/ getPackageManager(x) # <<>> /\ Contains(cmd, getPackageManager(x))

\* C10 as stated: a tool enters TechStack or Proficiency only if it was
\* found installed and some command of the history mentions it.
C10_UsageOnlyFromMentions ==
    (call.fn = "analyzeCommands" /\ call.done) =>
        \A x \in call.data.TechStack
                  \cup (DOMAIN call.data.Proficiency \ DOMAIN call.before.Proficiency) :
            /\ x \in call.host.probeOk \cup call.host.onPath
            /\ \E i \in 1..Len(call.entries) : Mentions(call.entries[i].Command, x)

(***************************************************************************)
(* parseShellConfig.                                                       *)
(***************************************************************************)
s_alias_ == <<"a", "l", "i", "a", "s", " ">>
s_export_ == <<"e", "x", "p", "o", "r", "t", " ">>
s_ll == <<"l", "l">>
s_PATH == <<"P", "A", "T", "H">>
s_ls_la == <<"l", "s", " ", "-", "l", "a">>
s_PATH_x == <<"$", "P", "A", "T", "H", ":", "/", "x">>

\* The quote characters of strings.Trim(..., "'\"").
Quotes == {"'", "\""}

\* m[k] = v on a map.
Put(m, k, v) == [x \in DOMAIN m \cup {k} |-> IF x = k THEN v ELSE m[x]]

\* The fresh ShellConfig of analyzeShellConfigs.
EmptyConfig ==
    [ConfigFiles |-> EmptyMap, Plugins |-> <<>>, Aliases |-> EmptyMap, Environment |-> EmptyMap]

AssignKeepFirst(m, rest) ==
    IF Len(SplitN2(rest, "=")) = 2 /\ TrimSpace(SplitN2(rest, "=")[1]) \notin DOMAIN m
    THEN Put(m, TrimSpace(SplitN2(rest, "=")[1]),
             Trim(TrimSpace(SplitN2(rest, "=")[2]), Quotes))
    ELSE m

\* The body of both branches of parseShellConfig: rest is the line without
\* its keyword; split at the first "=", the trimmed name is mapped to the
\* trimmed value without its quotes; without "=" nothing is stored.
Assign(m, rest) ==
    IF Len(SplitN2(rest, "=")) = 2
    THEN Put(m, TrimSpace(SplitN2(rest, "=")[1]),
             Trim(TrimSpace(SplitN2(rest, "=")[2]), Quotes))
    ELSE m

\* One turn of the scan loop of parseShellConfig.
ParseLine(line, config) ==
    [config EXCEPT
        !.Aliases = IF HasPrefix(line, s_alias_)
                    THEN Assign(@, TrimPrefix(line, s_alias_)) ELSE @,
        !.Environment = IF HasPrefix(line, s_export_)
                        THEN Assign(@, TrimPrefix(line, s_export_)) ELSE @]

\* parseShellConfig: the lines of the content in order.
RECURSIVE parseShellConfig(_, _)
parseShellConfig(content, config) ==
    IF content = <<>> THEN config
    ELSE parseShellConfig(Tail(content), ParseLine(Head(content), config))

\* Configuration lines: the two examples, a second alias of the same name,
\* lines without "=" or without keyword, blanks around name and value with
\* double quotes, a value holding "=", an indented alias.
ConfigLines ==
    {s_alias_ \o s_ll \o <<"=", "'">> \o s_ls_la \o <<"'">>,
     s_export_ \o s_PATH \o <<"=">> \o s_PATH_x,
     s_alias_ \o s_ll \o <<"=">> \o s_ls,
     s_alias_ \o s_ll,
     s_ll \o <<"=">> \o s_ls,
     s_alias_ \o <<" ", "g", " ", "=", " ", "\"">> \o s_git \o <<" ", "s", "\"", " ">>,
     s_export_ \o <<"E", "=", "'", "a", "=", "b", "\"">>,
     <<" ">> \o s_alias_ \o s_ll \o <<"=", "x">>}

\* The configuration left by an earlier file of the same shell.
PriorConfig ==
    parseShellConfig(<<s_alias_ \o s_ll \o <<"=", "o", "l", "d">>,
                       s_export_ \o s_PATH \o <<"=", "/", "b", "i", "n">>>>, EmptyConfig)

ConfigInputs ==
    {[fn |-> "parseShellConfig", content |-> c, before |-> b, done |-> FALSE, after |-> b] :
        c \in SeqUpTo(ConfigLines, MaxConfigLines), b \in {EmptyConfig, PriorConfig}}

InitConfig ==
    /\ PipelineIdle
    /\ call \in ConfigInputs

\* parseShellConfig applied to the content.
CallParseShellConfig ==
    /\ call.fn = "parseShellConfig" /\ ~ call.done
    /\ call' = [call EXCEPT !.done = TRUE, !.after = parseShellConfig(call.content, call.before)]
    /\ PipelineUnchanged

NextConfig == CallParseShellConfig

SpecConfig == InitConfig /\ [][NextConfig]_vars

(***************************************************************************)
(* C7.                                                                     *)
(***************************************************************************)
\* s without its leading and trailing characters of the cutset.
Core(s, cutset) ==
    LET keep == {i \in 1..Len(s) : s[i] \notin cutset}
    IN  IF keep = {} THEN <<>>
        ELSE SubSeq(s, CHOOSE i \in keep : \A j \in keep : i <= j,
                       CHOOSE i \in keep : \A j \in keep : j <= i)

\* The line begins with the keyword and has an "=" after it.
IsAssignment(line, keyword) ==
    /\ Len(line) >= Len(keyword)
    /\ \A i \in 1..Len(keyword) : line[i] = keyword[i]
    /\ \E k \in (Len(keyword) + 1)..Len(line) : line[k] = "="

\* The position of the first "=" after the keyword.
FirstEq(line, keyword) ==
    CHOOSE k \in (Len(keyword) + 1)..Len(line) :
        line[k] = "=" /\ \A j \in (Len(keyword) + 1)..(k - 1) : line[j] # "="

\* NAME of an assignment line: the text between keyword and "=", without
\* the blanks around it.
NameOf(line, keyword) ==
    Core(SubSeq(line, Len(keyword) + 1, FirstEq(line, keyword) - 1), {" ", "\t"})

\* VALUE of an assignment line: the text after the "=", without the blanks
\* and then the quotes around it.
ValueOf(line, keyword) ==
    Core(Core(SubSeq(line, FirstEq(line, keyword) + 1, Len(line)), {" ", "\t"}), Quotes)

\* What the map must be after the content: each NAME of an assignment line
\* maps to the VALUE of the last such line; the other names are as before.
Expected(content, before, keyword) ==
    LET lines == {i \in 1..Len(content) : IsAssignment(content[i], keyword)}
        names == {NameOf(content[i], keyword) : i \in lines}
        Last(n) == CHOOSE i \in lines :
                      /\ NameOf(content[i], keyword) = n
                      /\ \A j \in lines : NameOf(content[j], keyword) = n => j <= i
    IN  [n \in DOMAIN before \cup names |->
            IF n \in names THEN ValueOf(content[Last(n)], keyword) ELSE before[n]]

\* C7: after parseShellConfig, Aliases (resp. Environment) maps the trimmed
\* NAME of every line that begins with "alias " (resp. "export ") and holds
\* "=" to its VALUE without the surrounding quotes, the last line of a name
\* winning; every other name is as before, so a line without "=" or
\* without keyword changes neither map; alias ll='ls -la' gives ll -> ls -la
\* and export PATH=$PATH:/x gives PATH -> $PATH:/x.
C7_ParseAliasesAndExports ==
    (call.fn = "parseShellConfig" /\ call.done) =>
        /\ call.after.Aliases = Expected(call.content, call.before.Aliases, s_alias_)
        /\ call.after.Environment = Expected(call.content, call.before.Environment, s_export_)
        /\ call.after.ConfigFiles = call.before.ConfigFiles
        /\ call.after.Plugins = call.before.Plugins
        /\ ((\A i \in 1..Len(call.content) :
                ~ IsAssignment(call.content[i], s_alias_) /\ ~ IsAssignment(call.content[i], s_export_))
              => call.after = call.before)
        /\ (call.content = <<s_alias_ \o s_ll \o <<"=", "'">> \o s_ls_la \o <<"'">>>>
              => call.after.Aliases[s_ll] = s_ls_la)
        /\ (call.content = <<s_export_ \o s_PATH \o <<"=">> \o s_PATH_x>>
              => call.after.Environment[s_PATH] = s_PATH_x)

\* A file with two alias lines for ll has been parsed into a configuration
\* that already held ll: the second line's value is stored.
C7_Witness ==
    /\ call.fn = "parseShellConfig" /\ call.done
    /\ call.content = <<s_alias_ \o s_ll \o <<"=">> \o s_ls,
                        s_alias_ \o s_ll \o <<"=", "'">> \o s_ls_la \o <<"'">>>>
    /\ call.before = PriorConfig
    /\ call.after.Aliases[s_ll] = s_ls_la

(***************************************************************************)
(* getPeakHours applied to one map of hour counts.                         *)
(***************************************************************************)
HourPool == {0, 9, 14, 23}

\* The maps from some hours to positive counts.
HourCounts == UNION {[H -> 1..MaxCount] : H \in SUBSET HourPool}

PeakInputs ==
    {[fn |-> "getPeakHours", timeOfDay |-> t, done |-> FALSE, peaks |-> <<>>] : t \in HourCounts}

InitPeak ==
    /\ PipelineIdle
    /\ call \in PeakInputs

\* getPeakHours applied to the map.
CallGetPeakHours ==
    /\ call.fn = "getPeakHours" /\ ~ call.done
    /\ \E peaks \in getPeakHours(call.timeOfDay) :
          call' = [call EXCEPT !.done = TRUE, !.peaks = peaks]
    /\ PipelineUnchanged

NextPeak == CallGetPeakHours

SpecPeak == InitPeak /\ [][NextPeak]_vars

(***************************************************************************)
(* C8.                                                                     *)
(***************************************************************************)
\* Hour a comes before hour b: a higher count, or the same count and the
\* lower hour of the day.
Before(t, a, b) == t[a] > t[b] \/ (t[a] = t[b] /\ a < b)

\* C8 as stated: the result is the min(3, number of distinct hours) hours
\* of highest count, by descending count, the lower hour first among hours
\* of equal count (so one input has one result); all commands in hour 14
\* give [14].
C8_PeakHoursLowerHourFirst ==
    (call.fn = "getPeakHours" /\ call.done) =>
        LET t == call.timeOfDay
            p == call.peaks
        IN  /\ Len(p) = Min(3, Cardinality(DOMAIN t))
            /\ \A i \in 1..Len(p) :
                  /\ p[i] \in DOMAIN t
                  /\ Cardinality({h \in DOMAIN t : Before(t, h, p[i])}) = i - 1
            /\ (DOMAIN t = {14} => p = <<14>>)

(***************************************************************************)
(* The primary role step of analyzeCommands applied twice to one map of    *)
(* usage counts.                                                           *)
(***************************************************************************)
RoleLangs == {s_python, s_go, s_java, s_rust}

\* The maps from some languages to positive counts.
UsageCounts == UNION {[L -> 1..MaxCount] : L \in SUBSET RoleLangs}

RoleInputs ==
    {[fn |-> "getMostUsed", usage |-> u, runs |-> 0, role1 |-> <<>>, role2 |-> <<>>] :
        u \in UsageCounts}

InitRole ==
    /\ PipelineIdle
    /\ call \in RoleInputs

\* A first run: getMostUsed on the usage counts, PrimaryRole set from it.
CallGetMostUsed ==
    /\ call.fn = "getMostUsed" /\ call.runs = 0
    /\ \E primary \in getMostUsed(call.usage) :
          call' = [call EXCEPT !.runs = 1, !.role1 = PrimaryRoleAfter(<<>>, primary)]
    /\ PipelineUnchanged

\* A second run on the same usage counts.
CallGetMostUsedAgain ==
    /\ call.fn = "getMostUsed" /\ call.runs = 1
    /\ \E primary \in getMostUsed(call.usage) :
          call' = [call EXCEPT !.runs = 2, !.role2 = PrimaryRoleAfter(<<>>, primary)]
    /\ PipelineUnchanged

NextRole == CallGetMostUsed \/ CallGetMostUsedAgain

SpecRole == InitRole /\ [][NextRole]_vars

(***************************************************************************)
(* C9.                                                                     *)
(***************************************************************************)
\* C9 as stated: PrimaryRole names a language of highest count, it is
\* empty when no language has a positive count, and the same usage counts
\* always give the same PrimaryRole.
C9_PrimaryRoleStable ==
    (call.fn = "getMostUsed" /\ call.runs >= 1) =>
        /\ IF DOMAIN call.usage = {} THEN call.role1 = <<>>
           ELSE \E k \in DOMAIN call.usage :
                   /\ \A y \in DOMAIN call.usage : call.usage[y] <= call.usage[k]
                   /\ call.role1 = Title(k) \o s_Developer
        /\ (call.runs = 2 => call.role2 = call.role1)

(***************************************************************************)
(* analyzeShellConfigs and detectPlugins, on one host's home directory.    *)
(* Modification times are not part of the model.                           *)
(***************************************************************************)
p_bashrc == <<"~", "/", ".", "b", "a", "s", "h", "r", "c">>
p_bash_profile == <<"~", "/", ".", "b", "a", "s", "h", "_", "p", "r", "o", "f", "i", "l", "e">>
p_bash_aliases == <<"~", "/", ".", "b", "a", "s", "h", "_", "a", "l", "i", "a", "s", "e", "s">>
p_zshrc == <<"~", "/", ".", "z", "s", "h", "r", "c">>
p_zsh_plugins == <<"~", "/", ".", "z", "s", "h", "_", "p", "l", "u", "g", "i", "n", "s">>
p_zprofile == <<"~", "/", ".", "z", "p", "r", "o", "f", "i", "l", "e">>
p_config_fish ==
    <<"~", "/", ".", "c", "o", "n", "f", "i", "g", "/", "f", "i", "s",
      "h", "/", "c", "o", "n", "f", "i", "g", ".", "f", "i", "s", "h">>
p_fish_functions ==
    <<"~", "/", ".", "c", "o", "n", "f", "i", "g", "/", "f", "i",
      "s", "h", "/", "f", "u", "n", "c", "t", "i", "o", "n", "s">>
p_fish_conf_d ==
    <<"~", "/", ".", "c", "o", "n", "f", "i", "g", "/",
      "f", "i", "s", "h", "/", "c", "o", "n", "f", ".", "d">>
p_oh_my_zsh == <<"~", "/", ".", "o", "h", "-", "m", "y", "-", "z", "s", "h">>
p_antigen == <<"~", "/", ".", "a", "n", "t", "i", "g", "e", "n">>
p_zinit == <<"~", "/", ".", "z", "i", "n", "i", "t">>
p_zplug == <<"~", "/", ".", "z", "p", "l", "u", "g">>
p_bash_it == <<"~", "/", ".", "b", "a", "s", "h", "_", "i", "t">>
p_bash_completion ==
    <<"~", "/", ".", "l", "o", "c", "a", "l", "/", "s", "h", "a", "r", "e", "/",
      "b", "a", "s", "h", "-", "c", "o", "m", "p", "l", "e", "t", "i", "o", "n">>
p_bash_history == <<"~", "/", ".", "b", "a", "s", "h", "_", "h", "i", "s", "t", "o", "r", "y">>
p_zsh_history == <<"~", "/", ".", "z", "s", "h", "_", "h", "i", "s", "t", "o", "r", "y">>
p_fish_history ==
    <<"~", "/", ".", "l", "o", "c", "a", "l", "/", "s", "h", "a", "r", "e", "/", "f",
      "i", "s", "h", "/", "f", "i", "s", "h", "_", "h", "i", "s", "t", "o", "r", "y">>
s_dot_fish == <<".", "f", "i", "s", "h">>
s_home == <<"/", "h", "o", "m", "e", "/", "u">>
s_z_fish == <<"z", ".", "f", "i", "s", "h">>
s_readme == <<"R", "E", "A", "D", "M", "E">>

\* strings.HasSuffix
HasSuffix(s, suffix) ==
    /\ Len(suffix) <= Len(s)
    /\ SubSeq(s, Len(s) - Len(suffix) + 1, Len(s)) = suffix

\* strings.TrimSuffix
TrimSuffix(s, suffix) ==
    IF HasSuffix(s, suffix) THEN SubSeq(s, 1, Len(s) - Len(suffix)) ELSE s

\* filepath.Base of a path that does not end in a separator: the part after
\* the last "/".
RECURSIVE Base(_)
Base(path) ==
    IF path = <<>> \/ path[Len(path)] = "/" THEN <<>>
    ELSE Base(SubSeq(path, 1, Len(path) - 1)) \o <<path[Len(path)]>>

\* expandPath: "~/" becomes the home directory.
expandPath(path) ==
    IF HasPrefix(path, <<"~", "/">>) THEN s_home \o <<"/">> \o SubSeq(path, 3, Len(path)) ELSE path

\* The shellPaths map of analyzeShells.
shellPaths(shell) ==
    CASE shell = "bash" -> p_bash_history
      [] shell = "zsh" -> p_zsh_history
      [] shell = "fish" -> p_fish_history

\* The configPaths map of analyzeShellConfigs.
configPaths(shell) ==
    CASE shell = "bash" -> <<p_bashrc, p_bash_profile, p_bash_aliases>>
      [] shell = "zsh" -> <<p_zshrc, p_zsh_plugins, p_zprofile>>
      [] shell = "fish" -> <<p_config_fish, p_fish_functions, p_fish_conf_d>>

\* The home directory of the model's host: what os.Stat, os.ReadFile and
\* os.ReadDir find at a path.  A directory reads as empty content.
HomeFiles ==
    {[path |-> expandPath(p_bashrc), dir |-> FALSE, names |-> <<>>,
      content |-> <<s_alias_ \o s_ll \o <<"=", "'">> \o s_ls_la \o <<"'">>,
                    s_export_ \o s_PATH \o <<"=">> \o s_PATH_x>>],
     [path |-> expandPath(p_zshrc), dir |-> FALSE, names |-> <<>>,
      content |-> <<s_alias_ \o s_ll \o <<"=">> \o s_ls>>],
     [path |-> expandPath(p_oh_my_zsh), dir |-> TRUE, names |-> <<>>, content |-> <<>>],
     [path |-> expandPath(p_bash_it), dir |-> FALSE, names |-> <<>>, content |-> <<>>],
     [path |-> expandPath(p_fish_conf_d), dir |-> TRUE, names |-> <<s_readme, s_z_fish>>,
      content |-> <<>>]}

\* os.Stat succeeds.
Exists(path) == \E f \in HomeFiles : f.path = path

Stat(path) == CHOOSE f \in HomeFiles : f.path = path

\* append one PluginInfo per listed directory that exists.
RECURSIVE DirPlugins(_)
DirPlugins(managers) ==
    IF managers = <<>> THEN <<>>
    ELSE (IF Exists(expandPath(Head(managers))) /\ Stat(expandPath(Head(managers))).dir
          THEN <<[Name |-> Base(Head(managers)), Source |-> expandPath(Head(managers))]>>
          ELSE <<>>)
         \o DirPlugins(Tail(managers))

\* detectZshPlugins
detectZshPlugins == DirPlugins(<<p_oh_my_zsh, p_antigen, p_zinit, p_zplug>>)

\* detectBashPlugins
detectBashPlugins == DirPlugins(<<p_bash_it, p_bash_completion>>)

\* One PluginInfo per *.fish file of the directory listing.
RECURSIVE FishPlugins(_, _)
FishPlugins(dirPath, names) ==
    IF names = <<>> THEN <<>>
    ELSE (IF HasSuffix(Head(names), s_dot_fish)
          THEN <<[Name |-> TrimSuffix(Head(names), s_dot_fish),
                  Source |-> dirPath \o <<"/">> \o Head(names)]>>
          ELSE <<>>)
         \o FishPlugins(dirPath, Tail(names))

\* detectFishPlugins
detectFishPlugins ==
    IF Exists(expandPath(p_fish_conf_d)) /\ Stat(expandPath(p_fish_conf_d)).dir
    THEN FishPlugins(expandPath(p_fish_conf_d), Stat(expandPath(p_fish_conf_d)).names)
    ELSE <<>>

\* detectPlugins
detectPlugins(shell) ==
    CASE shell = "zsh" -> detectZshPlugins
      [] shell = "fish" -> detectFishPlugins
      [] shell = "bash" -> detectBashPlugins

\* The loop of analyzeShellConfigs over the shell's paths: a path that
\* exists is recorded and its content parsed.
RECURSIVE ReadConfigs(_, _)
ReadConfigs(paths, config) ==
    IF paths = <<>> THEN config
    ELSE ReadConfigs(Tail(paths),
            IF Exists(expandPath(Head(paths)))
            THEN parseShellConfig(Stat(expandPath(Head(paths))).content,
                    [config EXCEPT !.ConfigFiles =
                        Put(@, Head(paths), [Path |-> expandPath(Head(paths)),
                                             Content |-> Stat(expandPath(Head(paths))).content])])
            ELSE config)

\* analyzeShellConfigs
analyzeShellConfigs(shell) ==
    [ReadConfigs(configPaths(shell), EmptyConfig) EXCEPT !.Plugins = detectPlugins(shell)]

(***************************************************************************)
(* analyzeShells.                                                          *)
(***************************************************************************)
\* The commands of the history lines of a whole run.
MainLines == {s_python, <<"1", " ">> \o s_go}

\* A history file whose scan ends with an error after one line.
ScanErrorFile == [lines |-> <<s_python>>, opens |-> TRUE, err |-> TRUE]

\* A history file of one blank line.
BlankFile == [lines |-> <<<<" ", "\t">>>>, opens |-> TRUE, err |-> FALSE]

MainFiles ==
    {NoFile, ScanErrorFile, BlankFile}
    \cup {[lines |-> l, opens |-> TRUE, err |-> FALSE] : l \in SeqUpTo(MainLines, MaxHistLines)}

MainHosts == {NoHost, [probeOk |-> {s_python, s_go}, onPath |-> {s_git}]}

\* The run starts in the last hour of the day.
MainStartHours == {23}

Init ==
    /\ pc = "run"
    /\ fs \in [Shells -> MainFiles]
    /\ host \in MainHosts
    /\ hour \in MainStartHours
    /\ remaining = Shells
    /\ data = initShellData
    /\ call = NoCall
    /\ ui = NoProgram

LoopBodyStoreAlways(d, shell, result, h, installedLangs, primary, peaks) ==
    IF ~ result.err
    THEN [analyzeCommands(result.entries, [d EXCEPT !.Histories = Put(@, shell, result.entries)],
                          h, installedLangs, primary, peaks)
            EXCEPT !.ShellConfigs = Put(@, shell, analyzeShellConfigs(shell))]
    ELSE [d EXCEPT !.Histories = Put(@, shell, result.entries)]

LoopBodyConfigAlways(d, shell, result, h, installedLangs, primary, peaks) ==
    IF ~ result.err
    THEN [analyzeCommands(result.entries, [d EXCEPT !.Histories = Put(@, shell, result.entries)],
                          h, installedLangs, primary, peaks)
            EXCEPT !.ShellConfigs = Put(@, shell, analyzeShellConfigs(shell))]
    ELSE [d EXCEPT !.ShellConfigs = Put(@, shell, analyzeShellConfigs(shell))]

\* The body of the loop of analyzeShells for one shell, result being what
\* readHistory returned: only with err == nil is the history stored and
\* analysed and the shell's configuration read.
LoopBody(d, shell, result, h, installedLangs, primary, peaks) ==
    IF ~ result.err
    THEN [analyzeCommands(result.entries, [d EXCEPT !.Histories = Put(@, shell, result.entries)],
                          h, installedLangs, primary, peaks)
            EXCEPT !.ShellConfigs = Put(@, shell, analyzeShellConfigs(shell))]
    ELSE d

\* One turn of the loop: the range over shellPaths visits the shell.
AnalyzeShell(shell) ==
    /\ pc = "run"
    /\ shell \in remaining
    /\ LET result == readHistory(fs[shell], [i \in 1..Len(fs[shell].lines) |-> hour])
       IN  \E installedLangs \in getInstalledLanguages(host) :
           \E primary \in getMostUsed(LangUsage(result.entries, installedLangs)) :
           \E peaks \in getPeakHours(TimeOfDay(result.entries)) :
              data' = LoopBody(data, shell, result, host, installedLangs, primary, peaks)
    /\ remaining' = remaining \ {shell}
    /\ UNCHANGED <<pc, fs, host, hour, call, ui>>

\* The loop is over: analyzeShells returns data.
Return ==
    /\ pc = "run"
    /\ remaining = {}
    /\ pc' = "done"
    /\ UNCHANGED <<fs, host, hour, remaining, data, call, ui>>

\* The clock passes midnight during the run.
Tick ==
    /\ pc = "run"
    /\ hour \in MainStartHours
    /\ hour' = (hour + 1) % 24
    /\ UNCHANGED <<pc, fs, host, remaining, data, call, ui>>

Next ==
    \/ \E shell \in Shells : AnalyzeShell(shell)
    \/ Return
    \/ Tick

Spec == Init /\ [][Next]_vars

(***************************************************************************)
(* C5, C6.                                                                 *)
(***************************************************************************)
\* The number of commands analysed so far.
RECURSIVE TotalCommands(_, _)
TotalCommands(histories, shells) ==
    IF shells = {} THEN 0
    ELSE LET s == CHOOSE x \in shells : TRUE
         IN  Len(histories[s]) + TotalCommands(histories, shells \ {s})

\* C5: when the run has analysed no command at all (every history read is
\* empty), the snapshot's Productivity and Proficiency maps are empty and
\* PrimaryRole is the empty string.
C5_NothingFromNoCommands ==
    (pc = "done" /\ TotalCommands(data.Histories, DOMAIN data.Histories) = 0) =>
        /\ data.Productivity = EmptyMap
        /\ data.Proficiency = EmptyMap
        /\ data.PrimaryRole = <<>>
        /\ data.TechStack = {}

\* A run on a host with tools installed has returned after reading at
\* least one history file, one of them with a blank line, and no command.
C5_Witness ==
    /\ pc = "done"
    /\ host.probeOk # {}
    /\ DOMAIN data.Histories # {}
    /\ \A s \in DOMAIN data.Histories : data.Histories[s] = <<>>
    /\ \E s \in DOMAIN data.Histories : fs[s].lines # <<>>

\* The shell's history file is read without error.
Readable(file) == file.opens /\ ~ file.err

\* C6: at every point of the run, Histories holds an entry for exactly the
\* shells visited so far whose history file is read without error, and the
\* entry is the file's history (one command per non-blank line, its last
\* token); a shell whose file cannot be opened has no entry, and the
\* snapshot is returned once every shell has been visited.
C6_UnavailableShellsAbsent ==
    /\ \A s \in Shells :
          s \in DOMAIN data.Histories <=> (s \notin remaining /\ Readable(fs[s]))
    /\ \A s \in DOMAIN data.Histories :
          /\ Len(data.Histories[s]) = Len(NonBlankIndices(fs[s].lines))
          /\ \A k \in 1..Len(data.Histories[s]) :
                IsLastToken(fs[s].lines[NonBlankIndices(fs[s].lines)[k]],
                            data.Histories[s][k].Command)
    /\ (pc = "done" => remaining = {})

\* A run has returned on a host where one shell's history cannot be opened
\* and another's holds a command: the snapshot has the second, not the first.
C6_Witness ==
    /\ pc = "done"
    /\ \E s \in Shells : ~ fs[s].opens /\ s \notin DOMAIN data.Histories
    /\ \E s \in Shells : s \in DOMAIN data.Histories /\ data.Histories[s] # <<>>

(***************************************************************************)
(* C15.                                                                    *)
(***************************************************************************)
\* Some configuration file of the shell exists on the host.
HasConfigFiles(shell) ==
    \E i \in 1..Len(configPaths(shell)) : Exists(expandPath(configPaths(shell)[i]))

\* C15: at every point of the run, and so in the snapshot returned, the
\* shells keyed in ShellConfigs are the shells keyed in Histories, all of
\* them among bash, zsh and fish; the entry of a shell is what
\* analyzeShellConfigs finds for it, and a shell whose history was not read
\* without error has no entry, whatever configuration files it has.
C15_ConfigsKeyedLikeHistories ==
    /\ DOMAIN data.ShellConfigs = DOMAIN data.Histories
    /\ DOMAIN data.Histories \subseteq Shells
    /\ \A s \in DOMAIN data.ShellConfigs : data.ShellConfigs[s] = analyzeShellConfigs(s)
    /\ \A s \in Shells : ~ Readable(fs[s]) => s \notin DOMAIN data.ShellConfigs

\* A run has returned on a host where a shell with configuration files has
\* no readable history and another shell has one: the snapshot holds the
\* configuration of the second only.
C15_Witness ==
    /\ pc = "done"
    /\ \E s \in Shells :
          /\ HasConfigFiles(s)
          /\ ~ Readable(fs[s])
          /\ s \notin DOMAIN data.ShellConfigs
    /\ \E s \in Shells :
          /\ s \in DOMAIN data.ShellConfigs
          /\ data.ShellConfigs[s].ConfigFiles # EmptyMap

(***************************************************************************)
(* C13.                                                                    *)
(***************************************************************************)
\* The insights of a ShellData.
Insights(d) == <<d.PrimaryRole, d.TechStack, d.Proficiency, d.PeakHours, d.Productivity>>

\* What readHistory returned for the shell in a run that read the histories.
ResultOf(histories, shell) ==
    IF shell \in DOMAIN histories
    THEN [entries |-> histories[shell], err |-> FALSE]
    ELSE [entries |-> <<>>, err |-> TRUE]

\* Every ShellData one turn of the loop can leave, starting from d.
TurnOutcomes(d, shell, result, h) ==
    UNION {UNION {{LoopBody(d, shell, result, h, installedLangs, primary, peaks) :
                        peaks \in getPeakHours(TimeOfDay(result.entries))} :
                  primary \in getMostUsed(LangUsage(result.entries, installedLangs))} :
           installedLangs \in getInstalledLanguages(h)}

\* Every ShellData the loop can return when it visits the shells in the
\* given order and reads the given histories, starting from one of ds.
RECURSIVE RunInOrder(_, _, _, _)
RunInOrder(order, ds, histories, h) ==
    IF order = <<>> THEN ds
    ELSE RunInOrder(Tail(order),
                    UNION {TurnOutcomes(d, Head(order), ResultOf(histories, Head(order)), h) :
                           d \in ds},
                    histories, h)

\* C13 as stated: the insights of the snapshot returned are insights the
\* run yields in every processing order of bash, zsh and fish, for the
\* same histories read and the same installed tools.
C13_InsightsOrderIndependent ==
    pc = "done" =>
        \A order \in Orders(Shells) :
            Insights(data) \in
                {Insights(d) : d \in RunInOrder(order, {initShellData}, data.Histories, host)}

(***************************************************************************)
(* The terminal program: Model, Model.Init, Model.Update, and the event    *)
(* loop that runs analyzeShells as a command and hands every message to    *)
(* Update, one at a time.                                                  *)
(***************************************************************************)
\* The tabs of initialModel.
tabs == <<"Overview", "Tech Profile", "Work Patterns", "Tool Usage">>

\* initialModel (the viewport, the progress bar and the logger are left out).
initialModel ==
    [loading |-> TRUE, currentView |-> "main", tabs |-> tabs, activeTab |-> 0,
     shellData |-> initShellData]

\* Messages.
KeyMsg(key) == [type |-> "KeyMsg", key |-> key]

WindowSizeMsg == [type |-> "WindowSizeMsg"]

ShellDataMsg(d) == [type |-> "ShellData", data |-> d]

\* The key and window messages a user produces: the two quit keys, the
\* tab key, a key Update has no case for, a change of the window's size.
Inputs == {KeyMsg("q"), KeyMsg("ctrl+c"), KeyMsg("tab"), KeyMsg("down"), WindowSizeMsg}

\* The end of Update: the message goes to the viewport, which keeps no
\* state of the Model other than its own.
UpdateViewport(md, msg) == [m |-> md, cmd |-> "nil"]

UpdateKeyNoWrap(md, msg) ==
    CASE msg.key \in {"q", "ctrl+c"} -> [m |-> md, cmd |-> "Quit"]
      [] msg.key = "tab" -> [m |-> [md EXCEPT !.activeTab = md.activeTab + 1], cmd |-> "nil"]
      [] OTHER -> UpdateViewport(md, msg)

\* Update, case tea.KeyMsg.
UpdateKey(md, msg) ==
    CASE msg.key \in {"q", "ctrl+c"} -> [m |-> md, cmd |-> "Quit"]
      [] msg.key = "tab" ->
            [m |-> [md EXCEPT !.activeTab = (md.activeTab + 1) % Len(md.tabs)], cmd |-> "nil"]
      [] OTHER -> UpdateViewport(md, msg)

UpdateShellDataKeepLoading(md, msg) ==
    [m |-> [md EXCEPT !.shellData = msg.data], cmd |-> "nil"]

\* Update, case ShellData.
UpdateShellData(md, msg) ==
    [m |-> [md EXCEPT !.loading = FALSE, !.shellData = msg.data], cmd |-> "nil"]

\* Model.Update: the new Model and the command returned.
Update(md, msg) ==
    CASE msg.type = "KeyMsg" -> UpdateKey(md, msg)
      [] msg.type = "ShellData" -> UpdateShellData(md, msg)
      [] OTHER -> UpdateViewport(md, msg)

\* The history files of a program run.
ProgramFiles == {NoFile, [lines |-> <<s_python>>, opens |-> TRUE, err |-> FALSE]}

ProgramHosts == {[probeOk |-> {s_python, s_go}, onPath |-> {s_git}]}

\* The program after tea.NewProgram(initialModel()) and Model.Init: the
\* event loop runs, and analyzeShells runs as the program's command.
\* Next to the Model, ui counts the messages handled: the ShellData
\* messages, the inputs, the tab keys, the tab keys while loading.
InitProgram ==
    /\ pc = "run"
    /\ fs \in [Shells -> ProgramFiles]
    /\ host \in ProgramHosts
    /\ hour \in MainStartHours
    /\ remaining = Shells
    /\ data = initShellData
    /\ call = NoCall
    /\ ui = [phase |-> "running", m |-> initialModel, snapshots |-> 0,
             inputs |-> 0, tabKeys |-> 0, tabKeysLoading |-> 0]

\* The process lives: the event loop has not returned.
Alive == ui.phase \in {"running", "quitting"}

\* The command analyzeShells advances while the process lives.
TaskAnalyzeShell(shell) == Alive /\ AnalyzeShell(shell)

TaskReturn == Alive /\ Return

\* The event loop receives the value analyzeShells returned, the one
\* message of the command, and hands it to Update.
HandleShellData ==
    /\ Alive
    /\ pc = "done"
    /\ pc' = "delivered"
    /\ ui' = [ui EXCEPT !.m = Update(ui.m, ShellDataMsg(data)).m,
                        !.snapshots = @ + 1]
    /\ UNCHANGED <<fs, host, hour, remaining, data, call>>

\* The event loop receives a key or window message and hands it to
\* Update; the command tea.Quit makes the loop receive a QuitMsg later.
HandleInput(msg) ==
    /\ Alive
    /\ ui.inputs < MaxInputs
    /\ LET r == Update(ui.m, msg)
           tab == IF msg = KeyMsg("tab") THEN 1 ELSE 0
       IN  ui' = [ui EXCEPT !.m = r.m,
                           !.phase = IF r.cmd = "Quit" THEN "quitting" ELSE @,
                           !.inputs = @ + 1,
                           !.tabKeys = @ + tab,
                           !.tabKeysLoading = @ + (IF ui.m.loading THEN tab ELSE 0)]
    /\ UNCHANGED <<pc, fs, host, hour, remaining, data, call>>

\* The event loop receives the QuitMsg and returns: the process exits,
\* and the command with it.
HandleQuitMsg ==
    /\ ui.phase = "quitting"
    /\ ui' = [ui EXCEPT !.phase = "exited"]
    /\ UNCHANGED <<pc, fs, host, hour, remaining, data, call>>

NextProgram ==
    \/ \E shell \in Shells : TaskAnalyzeShell(shell)
    \/ TaskReturn
    \/ HandleShellData
    \/ \E msg \in Inputs : HandleInput(msg)
    \/ HandleQuitMsg

SpecProgram == InitProgram /\ [][NextProgram]_vars

(***************************************************************************)
(* C12, C14.                                                               *)
(***************************************************************************)
\* C12: in a program run the event loop handles at most one ShellData
\* message, namely one once analyzeShells has returned and handed over its
\* value, which happens only after every shell has been visited; loading
\* is true, and shellData the initial one, in every state before that
\* message is handled, and loading is false, and shellData the snapshot
\* returned, in every state after it; in both phases Update answers a
\* quit key with tea.Quit and a tab key with the next tab.
C12_OneSnapshotAfterAllShells ==
    /\ ui.snapshots = (IF pc = "delivered" THEN 1 ELSE 0)
    /\ pc \in {"done", "delivered"} => remaining = {}
    /\ ui.m.loading <=> ui.snapshots = 0
    /\ ui.m.shellData = (IF ui.snapshots = 0 THEN initShellData ELSE data)
    /\ \A key \in {"q", "ctrl+c"} :
          Update(ui.m, KeyMsg(key)) = [m |-> ui.m, cmd |-> "Quit"]
    /\ Update(ui.m, KeyMsg("tab")).m.activeTab # ui.m.activeTab
    /\ Update(ui.m, KeyMsg("tab")).m.loading = ui.m.loading

\* The program has exited on a quit key after the snapshot of a run that
\* read a history was handled, and tab keys were handled both while
\* loading and afterwards.
C12_Witness ==
    /\ ui.phase = "exited"
    /\ ui.snapshots = 1
    /\ ~ ui.m.loading
    /\ DOMAIN ui.m.shellData.Histories # {}
    /\ ui.tabKeysLoading > 0
    /\ ui.tabKeys > ui.tabKeysLoading

\* Every message Update can be given in the current state.
Messages == Inputs \cup {ShellDataMsg(data)}

\* C14: activeTab is always an index into the four tabs; it is the number
\* of tab keys handled so far modulo four, so each tab key advances it by
\* one and the fourth brings it back to the first tab; Update leaves it as
\* it is for every other message.
C14_ActiveTabValid ==
    /\ Len(ui.m.tabs) = 4
    /\ ui.m.activeTab \in 0..(Len(ui.m.tabs) - 1)
    /\ ui.m.activeTab = ui.tabKeys % 4
    /\ \A msg \in Messages :
          Update(ui.m, msg).m.activeTab =
              (IF msg = KeyMsg("tab")
               THEN (IF ui.m.activeTab = 3 THEN 0 ELSE ui.m.activeTab + 1)
               ELSE ui.m.activeTab)

\* Four tab keys, other keys and the snapshot have been handled, and the
\* first tab is active again.
C14_Witness ==
    /\ ui.tabKeys = 4
    /\ ui.inputs > ui.tabKeys
    /\ ui.snapshots = 1
    /\ ui.m.activeTab = 0

(***************************************************************************)
(* analyzeShells on a host where a probe command may never exit.           *)
(* getInstalledLanguages runs every probe of the catalog with              *)
(* exec.Command("sh", "-c", cmd).Output(), which returns when the command  *)
(* has exited.                                                             *)
(***************************************************************************)
\* Hosts with the catalog tools whose probe command never exits.
ProbeHosts ==
    {[probeOk |-> {}, onPath |-> {}, hangs |-> {}],
     [probeOk |-> {s_python, s_go}, onPath |-> {s_git}, hangs |-> {}],
     [probeOk |-> {s_python}, onPath |-> {}, hangs |-> {s_r}]}

InitProbe ==
    /\ pc = "run"
    /\ fs \in [Shells -> MainFiles]
    /\ host \in ProbeHosts
    /\ hour \in MainStartHours
    /\ remaining = Shells
    /\ data = initShellData
    /\ call = NoCall
    /\ ui = NoProgram

\* Output() returns for every probe of the catalog.
ProbesReturn(h) == h.hangs \cap Catalog = {}

\* getInstalledLanguages is called for the shell: its history was read
\* without error.
Probed(shell) == ~ readHistory(fs[shell], [i \in 1..Len(fs[shell].lines) |-> hour]).err

\* One turn of the loop in which every call made returns.
ProbeAnalyzeShell(shell) ==
    /\ Probed(shell) => ProbesReturn(host)
    /\ AnalyzeShell(shell)

\* One turn of the loop in which analyzeCommands calls
\* getInstalledLanguages and a probe never exits: the range has yielded
\* the shell, the history is stored, and the call waits in Output() from
\* then on.
ProbeHangs(shell) ==
    /\ pc = "run"
    /\ shell \in remaining
    /\ Probed(shell)
    /\ ~ ProbesReturn(host)
    /\ pc' = "probe"
    /\ data' = [data EXCEPT !.Histories =
                    Put(@, shell,
                        readHistory(fs[shell], [i \in 1..Len(fs[shell].lines) |-> hour]).entries)]
    /\ remaining' = remaining \ {shell}
    /\ UNCHANGED <<fs, host, hour, call, ui>>

NextProbe ==
    \/ \E shell \in Shells : ProbeAnalyzeShell(shell)
    \/ \E shell \in Shells : ProbeHangs(shell)
    \/ Return

\* What a turn of the loop, ProbeAnalyzeShell or ProbeHangs, does to the
\* shells left to visit; a turn is possible whenever the loop runs and a
\* shell is left.
Visit ==
    /\ pc = "run"
    /\ \E shell \in remaining : remaining' = remaining \ {shell}

\* analyzeShells runs as a goroutine of its own, which the scheduler keeps
\* running: while the loop has a shell left it takes its next turn, and
\* when none is left the function returns.
SpecProbe == InitProbe /\ [][NextProbe]_vars /\ WF_remaining(Visit) /\ WF_vars(Return)

(***************************************************************************)
(* C11.                                                                    *)
(***************************************************************************)
\* C11 as stated: the analysis run always terminates, whatever the probe
\* commands do: analyzeShells eventually returns its snapshot.
C11_AnalysisReturns == <>(pc = "done")

=============================================================================
